---- MODULE Spec2Model ----
(***************************************************************************)
(* Node lifecycle and cluster bootstrap of nano (cluster/node.go).         *)
(*                                                                         *)
(* Every node of the cluster is one Node value: its exported fields are    *)
(* the configuration (cfg), its unexported fields are the state below.     *)
(* Startup is split where another task can observe the intermediate state  *)
(* (a listener that already serves, a request in flight); everything       *)
(* between two such points is one action.                                  *)
(***************************************************************************)
EXTENDS Naturals, Sequences, FiniteSets, TLC

\* ------------------------------------------------------------------ bounds
\* Number of member (non-master) nodes of the cluster specification.
NumMembers == 2
\* Longest MemberAddr string of the single-node specification.
MaxAddrLen == 3
\* Most components a node of the single-node specification hosts.
MaxComponents == 2
\* client connections one acceptor takes before the model stops counting
MaxConns == 2
\* failed Accept calls one acceptor logs before the model stops counting
MaxAcceptErrors == 1

\* --------------------------------------------------------------- strings
\* A Go string is a sequence of one-character strings.
AddrChars == {"h", ":", "1"}

Empty == << >>

\* strings.Contains(s, c) for a one-character c
Contains(s, c) == \E i \in 1..Len(s) : s[i] = c

\* strings.Index(s, c) + 1, 0 when c does not occur
IndexOf(s, c) ==
    IF Contains(s, c)
    THEN CHOOSE i \in 1..Len(s) : s[i] = c /\ \A j \in 1..(i-1) : s[j] # c
    ELSE 0

\* strings.SplitN(s, c, 2)[0]
SplitHead(s, c) ==
    IF Contains(s, c) THEN SubSeq(s, 1, IndexOf(s, c) - 1) ELSE s

StringsUpTo(n) == UNION {[1..k -> AddrChars] : k \in 0..n}

\* initMember's check without its third disjunct.
MemberAddrValidNoHostCheck(addr) ==
    ~(addr = Empty \/ ~Contains(addr, ":"))

\* The negation of the condition of initMember's first statement.
MemberAddrValid(addr) ==
    ~(addr = Empty \/ ~Contains(addr, ":") \/ SplitHead(addr, ":") = Empty)

\* The number of ':' in s
Colons(s) == Cardinality({i \in 1..Len(s) : s[i] = ":"})

\* net.SplitHostPort(addr) of an address with one ':': the host
HostOf(addr) == SubSeq(addr, 1, IndexOf(addr, ":") - 1)

\* net.SplitHostPort(addr) of an address with one ':': the port
PortOf(addr) == SubSeq(addr, IndexOf(addr, ":") + 1, Len(addr))

\* A port that is empty or 0: the kernel picks a free port for the listener.
AnyPort(addr) ==
    addr = Empty \/ \A i \in 1..Len(PortOf(addr)) : PortOf(addr)[i] = "0"

\* Two listeners cannot be open at once on a and b: the same fixed port, on
\* the same host or with one of them on every interface.
SameEndpoint(a, b) ==
    /\ ~AnyPort(a) /\ ~AnyPort(b)
    /\ PortOf(a) = PortOf(b)
    /\ (HostOf(a) = HostOf(b) \/ HostOf(a) = Empty \/ HostOf(b) = Empty)

\* net.Listen("tcp", addr): a non-empty address is host:port with one port
\* separator, and a fixed port must not be held by another open listener;
\* envOk is the operating system's verdict on everything else.
ListenOk(addr, inUse, envOk) ==
    /\ envOk
    /\ (addr = Empty \/ Colons(addr) = 1)
    /\ \A held \in inUse : ~SameEndpoint(addr, held)

\* ------------------------------------------------------------ configuration
Digits == <<"0", "1", "2", "3", "4", "5", "6", "7", "8", "9">>

\* The addresses of the cluster specification: the master advertises on
\* AdvAddr, node n receives inbound calls on NodeMemberAddr(n).
AdvAddr == <<"h", ":", "a">>
NodeMemberAddr(n) == <<"h", ":", Digits[n + 1]>>
SrvAddr == <<"s", ":", "1">>
NoPort == <<"n", "o", "p", "o", "r", "t">>

\* Component i of node n; the service it provides carries the same name.
Comp(n, i) == <<n, i>>
CompList(n, k) == [i \in 1..k |-> Comp(n, i)]

NodeConfig(master, adv, maddr, srv, comps, ws, cert, key) ==
    [IsMaster |-> master, AdvertiseAddr |-> adv, MemberAddr |-> maddr,
     ServerAddr |-> srv, Components |-> comps, IsWebsocket |-> ws,
     TSLCertificate |-> cert, TSLKey |-> key]

VARIABLES
    cfg,          \* node -> its exported fields
    pc,           \* node -> position of Startup / Shutdown
    result,       \* node -> what Startup returned ("none" while it has not)
    idx,          \* node -> loop index of the hook loops
    handlerComps, \* node -> components registered with n.handler, in order
    created,      \* node -> n.cluster and n.handler exist
    masterServer, \* node -> "nil" | "serving" | "stopped" (GracefulStop called)
    memberServer, \* node -> "nil" | "created" | "serving"
    rpcClient,    \* node -> n.rpcClient exists
    listeners,    \* node -> addresses of the listeners the process holds open
    members,      \* node -> n.cluster.members
    remote,       \* node -> remote entries of the ServiceRegistry
    hooks,        \* node -> the hook calls made so far, in order
    acceptor,     \* node -> the acceptor task launched ("none" before)
    alive,        \* node -> the process has not died
    network,      \* RPC messages in flight
    resp,         \* node -> the Register response it received (<< >> before)
    regLog,       \* history: one record per Register request the master handled
    writing,      \* node -> the accesses to n.cluster.members in progress
    accept        \* node -> the acceptor task: its loop, connections, log

vars == <<cfg, pc, result, idx, handlerComps, created, masterServer,
          memberServer, rpcClient, listeners, members, remote, hooks,
          acceptor, alive, network, resp, regLog, writing, accept>>

Nodes == DOMAIN cfg

NodeConfigs(n) ==
    IF n = 0
    THEN {NodeConfig(TRUE, adv, NodeMemberAddr(0), SrvAddr, CompList(0, 1),
                     FALSE, Empty, Empty) : adv \in {Empty, AdvAddr}}
    ELSE {NodeConfig(FALSE, AdvAddr, maddr, SrvAddr, CompList(n, 1),
                     FALSE, Empty, Empty) : maddr \in {NoPort, NodeMemberAddr(n)}}

\* One master (node 0) and NumMembers members that join it.
ClusterConfigs ==
    {c \in [0..NumMembers -> UNION {NodeConfigs(n) : n \in 0..NumMembers}] :
        \A n \in 0..NumMembers : c[n] \in NodeConfigs(n)}

\* One node of any role, alone.
LocalConfigs ==
    {[n \in {0} |-> NodeConfig(master, adv, maddr, SrvAddr, CompList(0, k), ws, cert, key)] :
        master \in BOOLEAN, adv \in {Empty, AdvAddr},
        maddr \in StringsUpTo(MaxAddrLen), k \in 0..MaxComponents,
        ws \in BOOLEAN, cert \in {Empty, <<"c">>}, key \in {Empty, <<"k">>}}

\* The state of freshly constructed nodes.
Fresh(c) ==
    /\ cfg = c
    /\ pc = [n \in DOMAIN c |-> "idle"]
    /\ result = [n \in DOMAIN c |-> "none"]
    /\ idx = [n \in DOMAIN c |-> 0]
    /\ handlerComps = [n \in DOMAIN c |-> << >>]
    /\ created = [n \in DOMAIN c |-> FALSE]
    /\ masterServer = [n \in DOMAIN c |-> "nil"]
    /\ memberServer = [n \in DOMAIN c |-> "nil"]
    /\ rpcClient = [n \in DOMAIN c |-> FALSE]
    /\ listeners = [n \in DOMAIN c |-> {}]
    /\ members = [n \in DOMAIN c |-> << >>]
    /\ remote = [n \in DOMAIN c |-> {}]
    /\ hooks = [n \in DOMAIN c |-> << >>]
    /\ acceptor = [n \in DOMAIN c |-> "none"]
    /\ alive = [n \in DOMAIN c |-> TRUE]
    /\ network = {}
    /\ resp = [n \in DOMAIN c |-> << >>]
    /\ regLog = << >>
    /\ writing = [n \in DOMAIN c |-> {}]
    /\ accept = [n \in DOMAIN c |->
                   [loop |-> "none", accepted |-> 0, running |-> 0, errors |-> 0]]

Init == \E c \in ClusterConfigs : Fresh(c)

InitLocal == \E c \in LocalConfigs : Fresh(c)

\* --------------------------------------------------------------- helpers
Range(s) == {s[i] : i \in 1..Len(s)}

\* Addresses held by any open listener of any process.
InUse == UNION {listeners[n] : n \in Nodes}

\* n.handler.LocalService(): the services of the registered components
LocalService(n) == Range(handlerComps[n])

\* The error is recorded and Startup goes on to the hook loops.
FailWithoutReturn(n, err) ==
    /\ pc' = [pc EXCEPT ![n] = IF Len(cfg[n].Components) = 0 THEN "launch" ELSE "init"]
    /\ result' = [result EXCEPT ![n] = err]

\* return err from Startup
Fail(n, err) ==
    /\ pc' = [pc EXCEPT ![n] = "failed"]
    /\ result' = [result EXCEPT ![n] = err]

\* Where Startup goes on after the bootstrap branch: the first hook loop,
\* which an empty component list leaves at once.
HookLoops(n) == IF Len(cfg[n].Components) = 0 THEN "launch" ELSE "init"

\* The master whose registration server serves on address a.
MasterServing(m, a) ==
    /\ alive[m]
    /\ masterServer[m] = "serving"
    /\ cfg[m].AdvertiseAddr = a
    /\ a \in listeners[m]

\* The node whose MemberInbound server serves on address a.
MemberServing(n, a) ==
    /\ alive[n]
    /\ memberServer[n] = "serving"
    /\ cfg[n].MemberAddr = a
    /\ a \in listeners[n]

\* ------------------------------------------------------------ Node.Startup
\* Startup's first condition with the comparison inverted.
MasterWithAdvertise(c) == c.IsMaster /\ c.AdvertiseAddr # Empty

\* The condition of Startup's first statement.
MasterWithoutAdvertise(c) == c.IsMaster /\ c.AdvertiseAddr = Empty

\* The bootstrap branch taken whatever the configuration.
ClusterModeAlways(c) == TRUE

\* The conditions of Startup's bootstrap branch: the node is the master, or
\* it is a member (an advertise address is set).
ClusterMode(c) == c.IsMaster \/ c.AdvertiseAddr # Empty

\* The component a forward loop (for _, c := range components) visits after
\* done iterations, and the one a reverse loop (i from length-1 down to 0)
\* visits.
CountDown(length, done) == length - done

ForwardIndex(length, done) == done + 1

CountUp(length, done) == done + 1

ReverseIndex(length, done) == length - done

\* Startup up to the bootstrap branch: the configuration check, the
\* construction of n.cluster and n.handler, and the registration loop over
\* the components. handler.register rejects component number bad (0: none).
Startup(n) ==
    /\ alive[n]
    /\ pc[n] = "idle"
    /\ IF MasterWithoutAdvertise(cfg[n])
       THEN /\ Fail(n, "config")
            /\ UNCHANGED <<created, handlerComps>>
       ELSE /\ created' = [created EXCEPT ![n] = TRUE]
            /\ \E bad \in 0..Len(cfg[n].Components) :
                 IF bad # 0
                 THEN /\ handlerComps' = [handlerComps EXCEPT
                             ![n] = SubSeq(cfg[n].Components, 1, bad - 1)]
                      /\ Fail(n, "register")
                 ELSE /\ handlerComps' = [handlerComps EXCEPT ![n] = cfg[n].Components]
                      /\ pc' = [pc EXCEPT ![n] =
                             IF ClusterMode(cfg[n])
                             THEN "bootstrap" ELSE HookLoops(n)]
                      /\ UNCHANGED result
    /\ UNCHANGED <<cfg, writing, accept, idx, masterServer, memberServer, rpcClient, listeners,
                   members, remote, hooks, acceptor, alive, network,
                   resp, regLog>>

\* initMaster, first half: the listener on AdvertiseAddr, the two servers,
\* and the task that serves the registration surface.
initMasterListen(n) ==
    /\ alive[n]
    /\ pc[n] = "bootstrap"
    /\ cfg[n].IsMaster
    /\ \E envOk \in BOOLEAN :
         IF ListenOk(cfg[n].AdvertiseAddr, InUse, envOk)
         THEN /\ listeners' = [listeners EXCEPT ![n] = @ \cup {cfg[n].AdvertiseAddr}]
              /\ masterServer' = [masterServer EXCEPT ![n] = "serving"]
              /\ memberServer' = [memberServer EXCEPT ![n] = "created"]
              /\ pc' = [pc EXCEPT ![n] = "selfRegister"]
              /\ UNCHANGED result
         ELSE /\ Fail(n, "listen")
              /\ UNCHANGED <<listeners, masterServer, memberServer>>
    /\ UNCHANGED <<cfg, writing, accept, idx, handlerComps, created, rpcClient, members, remote,
                   hooks, acceptor, alive, network, resp, regLog>>

\* The Member that initMaster builds for the node itself.
SelfMember(n) ==
    [isMaster |-> TRUE, MemberType |-> "master",
     MemberAddr |-> cfg[n].MemberAddr, Services |-> LocalService(n)]

\* The member list left as it was.
AppendNothing(list, member) == list

\* n.cluster.members = append(n.cluster.members, member)
AppendMember(list, member) == Append(list, member)

\* initMaster, lines 132-141, begun: the RPC client is created, the self
\* entry is built and the append reads n.cluster.members. No lock is taken;
\* the task serving the registration server has been running since line 126.
initMasterAppendBegin(n) ==
    /\ alive[n]
    /\ pc[n] = "selfRegister"
    /\ rpcClient' = [rpcClient EXCEPT ![n] = TRUE]
    /\ writing' = [writing EXCEPT ![n] = @ \cup
                      {[who |-> "initMaster", req |-> << >>, seen |-> members[n], up |-> FALSE]}]
    /\ pc' = [pc EXCEPT ![n] = "appending"]
    /\ UNCHANGED <<cfg, accept, result, idx, handlerComps, created, masterServer,
                   memberServer, listeners, members, remote, hooks, acceptor,
                   alive, network, resp, regLog>>

\* The append of line 141 stores the list. When a handler stored its own
\* list in between, the two unsynchronised writes race: the store keeps the
\* handler's entry or overwrites it.
initMasterAppendEnd(n) ==
    /\ alive[n]
    /\ pc[n] = "appending"
    /\ \E a \in writing[n] :
         /\ a.who = "initMaster"
         /\ \E base \in {a.seen, members[n]} :
              members' = [members EXCEPT ![n] = AppendMember(base, SelfMember(n))]
         /\ writing' = [writing EXCEPT ![n] = @ \ {a}]
    /\ pc' = [pc EXCEPT ![n] = HookLoops(n)]
    /\ UNCHANGED <<cfg, accept, result, idx, handlerComps, created, masterServer,
                   memberServer, rpcClient, listeners, remote, hooks, acceptor,
                   alive, network, resp, regLog>>

\* initMember, first part: the address check, the listener on MemberAddr
\* and the task that serves the MemberInbound surface.
initMemberListen(n) ==
    /\ alive[n]
    /\ pc[n] = "bootstrap"
    /\ ~cfg[n].IsMaster
    /\ IF ~MemberAddrValid(cfg[n].MemberAddr)
       THEN /\ Fail(n, "config")
            /\ UNCHANGED <<listeners, memberServer>>
       ELSE \E envOk \in BOOLEAN :
              IF ListenOk(cfg[n].MemberAddr, InUse, envOk)
              THEN /\ listeners' = [listeners EXCEPT ![n] = @ \cup {cfg[n].MemberAddr}]
                   /\ memberServer' = [memberServer EXCEPT ![n] = "serving"]
                   /\ pc' = [pc EXCEPT ![n] = "dial"]
                   /\ UNCHANGED result
              ELSE /\ Fail(n, "listen")
                   /\ UNCHANGED <<listeners, memberServer>>
    /\ UNCHANGED <<cfg, writing, accept, idx, handlerComps, created, masterServer, rpcClient,
                   members, remote, hooks, acceptor, alive, network,
                   resp, regLog>>

\* The MemberInfo a member sends in its RegisterRequest.
RegisterRequest(n) ==
    [kind |-> "Register", to |-> cfg[n].AdvertiseAddr, from |-> n,
     MemberType |-> "member", MemberAddr |-> cfg[n].MemberAddr,
     Services |-> LocalService(n)]

\* initMember, second part: the RPC client, the connection to the master
\* and the Register call, which then waits for its response.
initMemberRegister(n) ==
    /\ alive[n]
    /\ pc[n] = "dial"
    /\ rpcClient' = [rpcClient EXCEPT ![n] = TRUE]
    /\ IF \E m \in Nodes : cfg[n].AdvertiseAddr \in listeners[m]
       THEN /\ network' = network \cup {RegisterRequest(n)}
            /\ pc' = [pc EXCEPT ![n] = "await"]
            /\ UNCHANGED result
       ELSE /\ Fail(n, "dial")
            /\ UNCHANGED network
    /\ UNCHANGED <<cfg, writing, accept, idx, handlerComps, created, masterServer, memberServer,
                   listeners, members, remote, hooks, acceptor, alive,
                   resp, regLog>>

\* initMember: client.Register returns an error. No server takes the
\* request, or the process whose handler took it has exited.
initMemberRegisterFail(n) ==
    /\ alive[n]
    /\ pc[n] = "await"
    /\ \/ /\ RegisterRequest(n) \in network
          /\ ~\E m \in Nodes : MasterServing(m, cfg[n].AdvertiseAddr)
          /\ network' = network \ {RegisterRequest(n)}
       \/ /\ \E m \in Nodes :
                /\ ~alive[m]
                /\ \E a \in writing[m] :
                      a.who = "Register" /\ a.req = <<RegisterRequest(n)>>
          /\ UNCHANGED network
    /\ Fail(n, "rpc")
    /\ UNCHANGED <<cfg, writing, accept, idx, handlerComps, created, masterServer, memberServer,
                   rpcClient, listeners, members, remote, hooks,
                   acceptor, alive, resp, regLog>>

\* The remote entries the services of member info mi stand for.
RemoteEntries(mi) == {<<s, mi.MemberAddr>> : s \in mi.Services}

\* handler.initRemoteService(list): remote entries for every listed member
initRemoteService(reg, list) ==
    reg \cup UNION {RemoteEntries(list[i]) : i \in 1..Len(list)}

\* handler.addRemoteService(mi)
addRemoteService(reg, mi) == reg \cup RemoteEntries(mi)

\* initMember, last part: the Register response seeds the remote entries.
initMemberSeed(n) ==
    /\ alive[n]
    /\ pc[n] = "await"
    /\ \E msg \in network :
         /\ msg.kind = "RegisterResponse"
         /\ msg.to = n
         /\ network' = network \ {msg}
         /\ resp' = [resp EXCEPT ![n] = msg.Members]
         /\ remote' = [remote EXCEPT ![n] = initRemoteService(@, msg.Members)]
    /\ pc' = [pc EXCEPT ![n] = HookLoops(n)]
    /\ UNCHANGED <<cfg, writing, accept, result, idx, handlerComps, created, masterServer,
                   memberServer, rpcClient, listeners, members, hooks,
                   acceptor, alive, regLog>>

\* Startup's first hook loop: Init on the next component.
CompInit(n) ==
    /\ alive[n]
    /\ pc[n] = "init"
    /\ hooks' = [hooks EXCEPT ![n] = Append(@, <<"Init",
           cfg[n].Components[ForwardIndex(Len(cfg[n].Components), idx[n])]>>)]
    /\ IF idx[n] + 1 = Len(cfg[n].Components)
       THEN /\ pc' = [pc EXCEPT ![n] = "afterInit"]
            /\ idx' = [idx EXCEPT ![n] = 0]
       ELSE /\ idx' = [idx EXCEPT ![n] = @ + 1]
            /\ UNCHANGED pc
    /\ UNCHANGED <<cfg, writing, accept, result, handlerComps, created, masterServer,
                   memberServer, rpcClient, listeners, members, remote, acceptor, alive, network, resp, regLog>>

\* Startup's second hook loop: AfterInit on the next component.
CompAfterInit(n) ==
    /\ alive[n]
    /\ pc[n] = "afterInit"
    /\ hooks' = [hooks EXCEPT ![n] = Append(@, <<"AfterInit",
           cfg[n].Components[ForwardIndex(Len(cfg[n].Components), idx[n])]>>)]
    /\ IF idx[n] + 1 = Len(cfg[n].Components)
       THEN /\ pc' = [pc EXCEPT ![n] = "launch"]
            /\ idx' = [idx EXCEPT ![n] = 0]
       ELSE /\ idx' = [idx EXCEPT ![n] = @ + 1]
            /\ UNCHANGED pc
    /\ UNCHANGED <<cfg, writing, accept, result, handlerComps, created, masterServer,
                   memberServer, rpcClient, listeners, members, remote, acceptor, alive, network, resp, regLog>>

\* The acceptor the task launched by Startup runs.
AcceptorKind(c) ==
    IF c.IsWebsocket
    THEN IF Len(c.TSLCertificate) # 0 THEN "listenAndServeWSTLS" ELSE "listenAndServeWS"
    ELSE "listenAndServe"

\* Startup's end: the acceptor task is launched and Startup returns nil.
LaunchAcceptor(n) ==
    /\ alive[n]
    /\ pc[n] = "launch"
    /\ acceptor' = [acceptor EXCEPT ![n] = AcceptorKind(cfg[n])]
    /\ result' = [result EXCEPT ![n] = "nil"]
    /\ pc' = [pc EXCEPT ![n] = "running"]
    /\ UNCHANGED <<cfg, writing, accept, idx, handlerComps, created, masterServer, memberServer,
                   rpcClient, listeners, members, remote, hooks, alive,
                   network, resp, regLog>>

\* ----------------------------------------------------------- Node.Shutdown
\* Shutdown is called on a running node: the component list is read.
Shutdown(n) ==
    /\ alive[n]
    /\ pc[n] = "running"
    /\ pc' = [pc EXCEPT ![n] =
           IF Len(cfg[n].Components) = 0 THEN "stopServer" ELSE "beforeShutdown"]
    /\ idx' = [idx EXCEPT ![n] = 0]
    /\ UNCHANGED <<cfg, writing, accept, result, handlerComps, created, masterServer,
                   memberServer, rpcClient, listeners, members, remote, hooks, acceptor, alive, network, resp, regLog>>

\* One loop that calls BeforeShutdown and Shutdown on each component in turn.
CompBeforeShutdownAndShutdown(n) ==
    /\ alive[n]
    /\ pc[n] = "beforeShutdown"
    /\ hooks' = [hooks EXCEPT ![n] =
           @ \o << <<"BeforeShutdown",
                     cfg[n].Components[ReverseIndex(Len(cfg[n].Components), idx[n])]>>,
                   <<"Shutdown",
                     cfg[n].Components[ReverseIndex(Len(cfg[n].Components), idx[n])]>> >>]
    /\ IF idx[n] + 1 = Len(cfg[n].Components)
       THEN /\ pc' = [pc EXCEPT ![n] = "stopServer"]
            /\ idx' = [idx EXCEPT ![n] = 0]
       ELSE /\ idx' = [idx EXCEPT ![n] = @ + 1]
            /\ UNCHANGED pc
    /\ UNCHANGED <<cfg, writing, accept, result, handlerComps, created, masterServer,
                   memberServer, rpcClient, listeners, members, remote,
                   acceptor, alive, network, resp, regLog>>

\* Shutdown's first loop, i from length-1 down to 0: BeforeShutdown.
CompBeforeShutdown(n) ==
    /\ alive[n]
    /\ pc[n] = "beforeShutdown"
    /\ hooks' = [hooks EXCEPT ![n] =
           Append(@, <<"BeforeShutdown",
               cfg[n].Components[ReverseIndex(Len(cfg[n].Components), idx[n])]>>)]
    /\ IF idx[n] + 1 = Len(cfg[n].Components)
       THEN /\ pc' = [pc EXCEPT ![n] = "shutdown"]
            /\ idx' = [idx EXCEPT ![n] = 0]
       ELSE /\ idx' = [idx EXCEPT ![n] = @ + 1]
            /\ UNCHANGED pc
    /\ UNCHANGED <<cfg, writing, accept, result, handlerComps, created, masterServer,
                   memberServer, rpcClient, listeners, members, remote, acceptor, alive, network, resp, regLog>>

\* Shutdown's second loop, i from length-1 down to 0: Shutdown.
CompShutdown(n) ==
    /\ alive[n]
    /\ pc[n] = "shutdown"
    /\ hooks' = [hooks EXCEPT ![n] =
           Append(@, <<"Shutdown",
               cfg[n].Components[ReverseIndex(Len(cfg[n].Components), idx[n])]>>)]
    /\ IF idx[n] + 1 = Len(cfg[n].Components)
       THEN /\ pc' = [pc EXCEPT ![n] = "stopServer"]
            /\ idx' = [idx EXCEPT ![n] = 0]
       ELSE /\ idx' = [idx EXCEPT ![n] = @ + 1]
            /\ UNCHANGED pc
    /\ UNCHANGED <<cfg, writing, accept, result, handlerComps, created, masterServer,
                   memberServer, rpcClient, listeners, members, remote, acceptor, alive, network, resp, regLog>>

\* Shutdown's end. Without a masterServer Shutdown returns; with one,
\* masterServer.GracefulStop() is called: it closes the listener, so that
\* no new call is taken, and then waits for the handlers in progress.
StopMasterServer(n) ==
    /\ alive[n]
    /\ pc[n] = "stopServer"
    /\ IF masterServer[n] # "nil"
       THEN /\ masterServer' = [masterServer EXCEPT ![n] = "stopped"]
            /\ listeners' = [listeners EXCEPT ![n] = @ \ {cfg[n].AdvertiseAddr}]
            /\ pc' = [pc EXCEPT ![n] = "draining"]
       ELSE /\ UNCHANGED <<masterServer, listeners>>
            /\ pc' = [pc EXCEPT ![n] = "stopped"]
    /\ UNCHANGED <<cfg, writing, accept, result, idx, handlerComps, created, memberServer,
                   rpcClient, members, remote, hooks, acceptor, alive,
                   network, resp, regLog>>

\* GracefulStop returns, no handler of the registration server being in
\* progress, and Shutdown returns with it.
GracefulStopReturns(n) ==
    /\ alive[n]
    /\ pc[n] = "draining"
    /\ \A a \in writing[n] : a.who # "Register"
    /\ pc' = [pc EXCEPT ![n] = "stopped"]
    /\ UNCHANGED <<cfg, writing, accept, result, idx, handlerComps, created, masterServer,
                   memberServer, rpcClient, listeners, members, remote, hooks,
                   acceptor, alive, network, resp, regLog>>

\* ------------------------------------------------- the registration server
\* The announcements of a new member to the members already known.
Announcements(list, req) ==
    {[kind |-> "NewMember", to |-> list[i].MemberAddr,
      MemberType |-> req.MemberType, MemberAddr |-> req.MemberAddr,
      Services |-> req.Services] : i \in {j \in 1..Len(list) : ~list[j].isMaster}}

\* cluster.Register on master m takes the request and the cluster's lock,
\* and reads the list. Handlers exclude each other, nothing else. The access
\* remembers whether the master's Startup had returned when it began.
RegisterBegin(m) ==
    \E req \in network :
      /\ req.kind = "Register"
      /\ MasterServing(m, req.to)
      /\ \A a \in writing[m] : a.who # "Register"
      /\ writing' = [writing EXCEPT ![m] = @ \cup
                        {[who |-> "Register", req |-> <<req>>, seen |-> members[m],
                          up |-> result[m] = "nil"]}]
      /\ network' = network \ {req}
      /\ UNCHANGED <<cfg, accept, pc, result, idx, handlerComps, created, masterServer,
                     memberServer, rpcClient, listeners, members, remote, hooks,
                     acceptor, alive, resp, regLog>>

\* The handler answers with the list as it found it.
RegisteredListBefore(base, entry) == base

\* cluster.Register: the list the handler stores and answers with, the new
\* member's entry appended to the list it read.
RegisteredList(base, entry) == Append(base, entry)

\* The handler stores the list with the new entry, answers with it, tells
\* the other members and releases the lock.
RegisterEnd(m) ==
    \E a \in writing[m] :
      /\ a.who = "Register"
      /\ alive[m]
      /\ \E base \in {a.seen, members[m]} :
           LET req == a.req[1]
               entry == [isMaster |-> FALSE, MemberType |-> req.MemberType,
                         MemberAddr |-> req.MemberAddr, Services |-> req.Services]
               list == RegisteredList(base, entry)
           IN /\ members' = [members EXCEPT ![m] = list]
              /\ network' = network
                     \cup {[kind |-> "RegisterResponse", to |-> req.from, Members |-> list]}
                     \cup Announcements(base, req)
              /\ regLog' = Append(regLog, [from |-> req.from, size |-> Len(list),
                                           masterUp |-> a.up])
      /\ writing' = [writing EXCEPT ![m] = @ \ {a}]
      /\ UNCHANGED <<cfg, accept, pc, result, idx, handlerComps, created, masterServer,
                     memberServer, rpcClient, listeners, remote, hooks,
                     acceptor, alive, resp>>

\* ------------------------------------------------- the MemberInbound server
\* Node.NewMember: an announcement reaches the node that serves its address.
NewMember(n) ==
    \E req \in network :
      /\ req.kind = "NewMember"
      /\ MemberServing(n, req.to)
      /\ remote' = [remote EXCEPT ![n] = addRemoteService(@, req)]
      /\ network' = network \ {req}
      /\ UNCHANGED <<cfg, writing, accept, pc, result, idx, handlerComps, created, masterServer,
                     memberServer, rpcClient, listeners, members, hooks,
                     acceptor, alive, resp, regLog>>

\* An announcement no server takes is given up (best effort).
NewMemberUndelivered ==
    \E req \in network :
      /\ req.kind = "NewMember"
      /\ ~\E n \in Nodes : MemberServing(n, req.to)
      /\ network' = network \ {req}
      /\ UNCHANGED <<cfg, writing, accept, pc, result, idx, handlerComps, created, masterServer,
                     memberServer, rpcClient, listeners, members, remote, hooks, acceptor, alive, resp, regLog>>

\* A running peer whose ServiceRegistry routes some service to node n.
RoutesTo(p, n) ==
    /\ p # n
    /\ alive[p]
    /\ result[p] = "nil"
    /\ \E e \in remote[p] : e[2] = cfg[n].MemberAddr

\* panic("implement me") in a handler of the serving process: the process
\* dies and with it every listener it holds.
ImplementMe(n) ==
    /\ MemberServing(n, cfg[n].MemberAddr)
    /\ \E p \in Nodes : RoutesTo(p, n)
    /\ alive' = [alive EXCEPT ![n] = FALSE]
    /\ listeners' = [listeners EXCEPT ![n] = {}]
    /\ UNCHANGED <<cfg, writing, accept, pc, result, idx, handlerComps, created, masterServer,
                   memberServer, rpcClient, members, remote, hooks,
                   acceptor, network, resp, regLog>>

HandleRequest(n) == ImplementMe(n)

HandleNotify(n) == ImplementMe(n)

HandlePush(n) == ImplementMe(n)

HandleResponse(n) == ImplementMe(n)

\* ---------------------------------------------------------- specifications
NextLocal ==
    \/ \E n \in Nodes : Startup(n)
    \/ \E n \in Nodes : initMasterListen(n)
    \/ \E n \in Nodes : initMasterAppendBegin(n)
    \/ \E n \in Nodes : initMasterAppendEnd(n)
    \/ \E n \in Nodes : initMemberListen(n)
    \/ \E n \in Nodes : initMemberRegister(n)
    \/ \E n \in Nodes : CompInit(n)
    \/ \E n \in Nodes : CompAfterInit(n)
    \/ \E n \in Nodes : LaunchAcceptor(n)
    \/ \E n \in Nodes : Shutdown(n)
    \/ \E n \in Nodes : CompBeforeShutdown(n)
    \/ \E n \in Nodes : CompShutdown(n)
    \/ \E n \in Nodes : StopMasterServer(n)
    \/ \E n \in Nodes : GracefulStopReturns(n)

\* The cluster: every node starts, members register with the master, the
\* master announces them; the application shuts the master down.
Next ==
    \/ \E n \in Nodes : Startup(n)
    \/ \E n \in Nodes : initMasterListen(n)
    \/ \E n \in Nodes : initMasterAppendBegin(n)
    \/ \E n \in Nodes : initMasterAppendEnd(n)
    \/ \E n \in Nodes : initMemberListen(n)
    \/ \E n \in Nodes : initMemberRegister(n)
    \/ \E n \in Nodes : initMemberRegisterFail(n)
    \/ \E n \in Nodes : initMemberSeed(n)
    \/ \E n \in Nodes : CompInit(n)
    \/ \E n \in Nodes : CompAfterInit(n)
    \/ \E n \in Nodes : LaunchAcceptor(n)
    \/ \E n \in Nodes : cfg[n].IsMaster /\ Shutdown(n)
    \/ \E n \in Nodes : CompBeforeShutdown(n)
    \/ \E n \in Nodes : CompShutdown(n)
    \/ \E n \in Nodes : StopMasterServer(n)
    \/ \E n \in Nodes : GracefulStopReturns(n)
    \/ \E n \in Nodes : RegisterBegin(n)
    \/ \E n \in Nodes : RegisterEnd(n)
    \/ \E n \in Nodes : NewMember(n)

Spec == Init /\ [][Next]_vars

\* One node alone, through Startup and Shutdown.
SpecLocal == InitLocal /\ [][NextLocal]_vars

\* The cluster with peers that forward envelopes to the members they know.
NextInbound ==
    \/ Next
    \/ NewMemberUndelivered
    \/ \E n \in Nodes : HandleRequest(n)
    \/ \E n \in Nodes : HandleNotify(n)
    \/ \E n \in Nodes : HandlePush(n)
    \/ \E n \in Nodes : HandleResponse(n)

SpecInbound == Init /\ [][NextInbound]_vars

\* The same, with the announcements in flight eventually handled: the RPC
\* transport delivers them and the serving task is scheduled.
FairSpec == SpecInbound /\ WF_vars(\E n \in 0..NumMembers : NewMember(n))

\* ------------------------------------------- the member list, access by access
\* The cluster starting up and nothing else: the accesses to the member list
\* of initMaster and of the Register handlers, interleaved.
NextRace ==
    \/ \E n \in Nodes : Startup(n)
    \/ \E n \in Nodes : initMasterListen(n)
    \/ \E n \in Nodes : initMasterAppendBegin(n)
    \/ \E n \in Nodes : initMasterAppendEnd(n)
    \/ \E n \in Nodes : initMemberListen(n)
    \/ \E n \in Nodes : initMemberRegister(n)
    \/ \E n \in Nodes : initMemberSeed(n)
    \/ \E n \in Nodes : CompInit(n)
    \/ \E n \in Nodes : CompAfterInit(n)
    \/ \E n \in Nodes : LaunchAcceptor(n)
    \/ \E n \in Nodes : RegisterBegin(n)
    \/ \E n \in Nodes : RegisterEnd(n)
    \/ \E n \in Nodes : NewMember(n)

SpecRace == Init /\ [][NextRace]_vars


\* ------------------------------------------------------ the acceptor task
\* Addresses held by the client-facing listeners of the running processes.
ClientInUse ==
    {cfg[m].ServerAddr : m \in {k \in Nodes : alive[k] /\ accept[k].loop \in {"accepting", "serving"}}}

\* The failure is logged and the process goes on.
FatalLogged(n) ==
    UNCHANGED <<alive, listeners>>

\* log.Fatal: the process exits, every listener it held is closed.
Fatal(n) ==
    /\ alive' = [alive EXCEPT ![n] = FALSE]
    /\ listeners' = [listeners EXCEPT ![n] = {}]

\* What the acceptor's bind needs: the address free and well formed, and for
\* TLS a certificate and a key that load.
BindOk(n, envOk) ==
    /\ ListenOk(cfg[n].ServerAddr, InUse \cup ClientInUse, envOk)
    /\ (acceptor[n] = "listenAndServeWSTLS" =>
            (cfg[n].TSLCertificate # Empty /\ cfg[n].TSLKey # Empty))

\* The task launched by Startup binds the client-facing listener:
\* net.Listen, http.ListenAndServe or http.ListenAndServeTLS. A failure
\* goes to log.Fatal.
AcceptorBind(n) ==
    /\ alive[n]
    /\ acceptor[n] # "none"
    /\ accept[n].loop = "none"
    /\ \E envOk \in BOOLEAN :
         IF BindOk(n, envOk)
         THEN /\ accept' = [accept EXCEPT ![n].loop =
                     IF acceptor[n] = "listenAndServe" THEN "accepting" ELSE "serving"]
              /\ UNCHANGED <<alive, listeners>>
         ELSE /\ accept' = [accept EXCEPT ![n].loop = "fatal"]
              /\ Fatal(n)
    /\ UNCHANGED <<cfg, writing, pc, result, idx, handlerComps, created, masterServer,
                   memberServer, rpcClient, members, remote, hooks, acceptor,
                   network, resp, regLog>>

\* The loop calls the handler itself and accepts again when it is back.
AcceptConnInline(n) ==
    /\ alive[n]
    /\ acceptor[n] = "listenAndServe"
    /\ accept[n].loop = "accepting"
    /\ accept[n].accepted < MaxConns
    /\ accept[n].running = 0
    /\ accept' = [accept EXCEPT ![n].accepted = @ + 1, ![n].running = @ + 1]
    /\ UNCHANGED <<cfg, writing, pc, result, idx, handlerComps, created, masterServer,
                   memberServer, rpcClient, listeners, members, remote, hooks,
                   acceptor, alive, network, resp, regLog>>

\* listenAndServe's loop: Accept returns a connection, the handler gets it
\* in a task of its own and the loop is back at Accept.
AcceptConn(n) ==
    /\ alive[n]
    /\ acceptor[n] = "listenAndServe"
    /\ accept[n].loop = "accepting"
    /\ accept[n].accepted < MaxConns
    /\ accept' = [accept EXCEPT ![n].accepted = @ + 1, ![n].running = @ + 1]
    /\ UNCHANGED <<cfg, writing, pc, result, idx, handlerComps, created, masterServer,
                   memberServer, rpcClient, listeners, members, remote, hooks,
                   acceptor, alive, network, resp, regLog>>

\* listenAndServe's loop: Accept returns an error, which is logged; continue.
AcceptError(n) ==
    /\ alive[n]
    /\ acceptor[n] = "listenAndServe"
    /\ accept[n].loop = "accepting"
    /\ accept[n].errors < MaxAcceptErrors
    /\ accept' = [accept EXCEPT ![n].errors = @ + 1]
    /\ UNCHANGED <<cfg, writing, pc, result, idx, handlerComps, created, masterServer,
                   memberServer, rpcClient, listeners, members, remote, hooks,
                   acceptor, alive, network, resp, regLog>>

\* The task of one connection ends. Nothing makes it end.
HandlerReturns(n) ==
    /\ alive[n]
    /\ accept[n].running > 0
    /\ accept' = [accept EXCEPT ![n].running = @ - 1]
    /\ UNCHANGED <<cfg, writing, pc, result, idx, handlerComps, created, masterServer,
                   memberServer, rpcClient, listeners, members, remote, hooks,
                   acceptor, alive, network, resp, regLog>>

\* One node of any role, with any kind of acceptor, whose client-facing
\* address is its own or the one its registration server holds.
AcceptConfigs ==
    {[n \in {0} |-> NodeConfig(master, adv, NodeMemberAddr(0), srv, CompList(0, 1), ws, cert, key)] :
        master \in BOOLEAN, adv \in {Empty, AdvAddr}, srv \in {SrvAddr, AdvAddr},
        ws \in BOOLEAN, cert \in {Empty, <<"c">>}, key \in {Empty, <<"k">>}}

InitAccept == \E c \in AcceptConfigs : Fresh(c)

\* One node through Startup and Shutdown, with its acceptor task and the
\* clients that connect to it.
NextAccept ==
    \/ NextLocal
    \/ \E n \in Nodes : AcceptorBind(n)
    \/ \E n \in Nodes : AcceptConn(n)
    \/ \E n \in Nodes : AcceptError(n)
    \/ \E n \in Nodes : HandlerReturns(n)

SpecAccept == InitAccept /\ [][NextAccept]_vars


\* ------------------------------------------- the cluster through Shutdown
\* The client-facing address of node n.
NodeServerAddr(n) == <<"s", ":", Digits[n + 2]>>

\* One master and NumMembers members, every address well formed and its own.
ShutdownConfig ==
    [n \in 0..NumMembers |->
        NodeConfig(n = 0, AdvAddr, NodeMemberAddr(n), NodeServerAddr(n), CompList(n, 1),
                   FALSE, Empty, Empty)]

InitShutdown == Fresh(ShutdownConfig)

\* The cluster in which the application shuts any node down, with the
\* acceptor tasks and the clients that connect.
NextShutdown ==
    \/ \E n \in Nodes : Startup(n)
    \/ \E n \in Nodes : initMasterListen(n)
    \/ \E n \in Nodes : initMasterAppendBegin(n)
    \/ \E n \in Nodes : initMasterAppendEnd(n)
    \/ \E n \in Nodes : initMemberListen(n)
    \/ \E n \in Nodes : initMemberRegister(n)
    \/ \E n \in Nodes : initMemberRegisterFail(n)
    \/ \E n \in Nodes : initMemberSeed(n)
    \/ \E n \in Nodes : CompInit(n)
    \/ \E n \in Nodes : CompAfterInit(n)
    \/ \E n \in Nodes : LaunchAcceptor(n)
    \/ \E n \in Nodes : Shutdown(n)
    \/ \E n \in Nodes : CompBeforeShutdown(n)
    \/ \E n \in Nodes : CompShutdown(n)
    \/ \E n \in Nodes : StopMasterServer(n)
    \/ \E n \in Nodes : GracefulStopReturns(n)
    \/ \E n \in Nodes : RegisterBegin(n)
    \/ \E n \in Nodes : RegisterEnd(n)
    \/ \E n \in Nodes : NewMember(n)
    \/ \E n \in Nodes : AcceptorBind(n)
    \/ \E n \in Nodes : AcceptConn(n)

SpecShutdown == InitShutdown /\ [][NextShutdown]_vars


\* ------------------------------------------------------------------ claims
Started(n) == result[n] = "nil"

Failed(n) == result[n] \notin {"none", "nil"}

MasterEntries(n) == {i \in 1..Len(members[n]) : members[n][i].isMaster}

\* C1: once a master's Startup has returned nil, its member list holds exactly
\* one entry with isMaster = TRUE, and that entry has memberType "master", the
\* configured MemberAddr and the node's local services; registrations that
\* come later do not change this.
C1_MasterSelfEntry ==
    \A n \in Nodes :
        (cfg[n].IsMaster /\ Started(n)) =>
            /\ Cardinality(MasterEntries(n)) = 1
            /\ \A i \in MasterEntries(n) :
                 /\ members[n][i].MemberType = "master"
                 /\ members[n][i].MemberAddr = cfg[n].MemberAddr
                 /\ members[n][i].Services = Range(cfg[n].Components)

\* A started master that has handled a registration after its Startup returned.
C1_Witness ==
    \E n \in Nodes :
        /\ cfg[n].IsMaster /\ Started(n)
        /\ Len(members[n]) >= 2
        /\ Len(regLog) >= 1 /\ regLog[Len(regLog)].masterUp

\* The hook calls Startup makes on components comps, in order.
StartupHooks(comps) ==
    [i \in 1..(2 * Len(comps)) |->
        IF i <= Len(comps) THEN <<"Init", comps[i]>>
        ELSE <<"AfterInit", comps[i - Len(comps)]>>]

\* The hook calls Shutdown makes on components comps, in order.
ShutdownHooks(comps) ==
    [i \in 1..(2 * Len(comps)) |->
        IF i <= Len(comps) THEN <<"BeforeShutdown", comps[Len(comps) + 1 - i]>>
        ELSE <<"Shutdown", comps[2 * Len(comps) + 1 - i]>>]

IsPrefix(s, t) == Len(s) <= Len(t) /\ \A i \in 1..Len(s) : s[i] = t[i]

\* C2: the hook calls of Startup are, at every moment, a prefix of Init on
\* c1..ck followed by AfterInit on c1..ck, and the acceptor task is launched
\* (and Startup returns nil) only when all 2k calls have been made.
C2_StartupHookOrder ==
    \A n \in Nodes :
        /\ pc[n] \in {"idle", "bootstrap", "selfRegister", "dial", "await",
                      "init", "afterInit", "launch", "failed"} =>
               IsPrefix(hooks[n], StartupHooks(cfg[n].Components))
        /\ (acceptor[n] # "none" \/ Started(n)) =>
               /\ Len(hooks[n]) >= 2 * Len(cfg[n].Components)
               /\ SubSeq(hooks[n], 1, 2 * Len(cfg[n].Components))
                      = StartupHooks(cfg[n].Components)

\* A started node with at least two components.
C2_Witness ==
    \E n \in Nodes : Started(n) /\ Len(cfg[n].Components) >= 2
                     /\ acceptor[n] # "none"

\* C3: the hook calls Shutdown makes are, at every moment, a prefix of
\* BeforeShutdown on ck..c1 followed by Shutdown on ck..c1, and when Shutdown
\* has returned every component has received each of the two exactly once.
C3_ShutdownHookOrder ==
    \A n \in Nodes :
        pc[n] \in {"beforeShutdown", "shutdown", "stopServer", "draining", "stopped"} =>
            LET k == Len(cfg[n].Components)
                made == SubSeq(hooks[n], 2 * k + 1, Len(hooks[n]))
            IN /\ Len(hooks[n]) >= 2 * k
               /\ IsPrefix(made, ShutdownHooks(cfg[n].Components))
               /\ pc[n] \in {"stopServer", "draining", "stopped"} =>
                      made = ShutdownHooks(cfg[n].Components)

\* A node with at least two components whose Shutdown has returned.
C3_Witness ==
    \E n \in Nodes : pc[n] = "stopped" /\ Len(cfg[n].Components) >= 2

\* The three ways the claim names for a MemberAddr to be malformed: empty,
\* without any ':', or with nothing before its first ':'.
MalformedMemberAddr(addr) ==
    \/ Len(addr) = 0
    \/ \A i \in 1..Len(addr) : addr[i] # ":"
    \/ addr[1] = ":"

MemberConfig(c) == ~c.IsMaster /\ c.AdvertiseAddr # Empty

\* C4: a member whose MemberAddr is malformed never gets past the address
\* check: Startup returns the configuration error once the bootstrap is
\* reached, no listener is opened, no RPC client is made, no Register request
\* is sent and no hook runs.
C4_MalformedMemberAddr ==
    \A n \in Nodes :
        (MemberConfig(cfg[n]) /\ MalformedMemberAddr(cfg[n].MemberAddr)) =>
            /\ pc[n] \in {"idle", "bootstrap", "failed"}
            /\ result[n] \in {"none", "config", "register"}
            /\ (pc[n] = "failed" /\ handlerComps[n] = cfg[n].Components) =>
                   result[n] = "config"
            /\ listeners[n] = {}
            /\ memberServer[n] = "nil"
            /\ ~rpcClient[n]
            /\ ~\E msg \in network : msg.kind = "Register" /\ msg.from = n
            /\ hooks[n] = << >>
            /\ acceptor[n] = "none"

\* A member with an empty host part whose Startup returned the error.
C4_Witness ==
    \E n \in Nodes :
        /\ MemberConfig(cfg[n])
        /\ Len(cfg[n].MemberAddr) >= 2 /\ cfg[n].MemberAddr[1] = ":"
        /\ result[n] = "config"

\* C5: a master without an advertise address fails at Startup's first
\* statement with the configuration error and nothing has been touched: no
\* handler, no registered component, no listener, no server, no RPC client,
\* no hook, no acceptor.
C5_MasterNeedsAdvertise ==
    \A n \in Nodes :
        (cfg[n].IsMaster /\ cfg[n].AdvertiseAddr = Empty) =>
            /\ pc[n] \in {"idle", "failed"}
            /\ result[n] \in {"none", "config"}
            /\ ~created[n]
            /\ handlerComps[n] = << >>
            /\ listeners[n] = {}
            /\ masterServer[n] = "nil" /\ memberServer[n] = "nil"
            /\ ~rpcClient[n]
            /\ members[n] = << >>
            /\ hooks[n] = << >>
            /\ acceptor[n] = "none"

\* A master with components and no advertise address, after Startup returned.
C5_Witness ==
    \E n \in Nodes :
        /\ cfg[n].IsMaster /\ cfg[n].AdvertiseAddr = Empty
        /\ Len(cfg[n].Components) >= 1
        /\ result[n] = "config"

\* The response to the i-th registration the master handles after its own
\* Startup has returned is the list the member receives, has i + 1 entries,
\* and holds the master's entry and the member's own; the master's list
\* holds no entry twice.
C6_ResponseInv ==
    /\ \A n \in Nodes :
         resp[n] # << >> =>
            \E i \in 1..Len(regLog) :
               /\ regLog[i].from = n
               /\ Len(resp[n]) = regLog[i].size
               /\ (\A k \in 1..i : regLog[k].masterUp) =>
                    /\ Len(resp[n]) = i + 1
                    /\ \E j \in 1..Len(resp[n]) : resp[n][j].isMaster
                    /\ \E j \in 1..Len(resp[n]) :
                          /\ ~resp[n][j].isMaster
                          /\ resp[n][j].MemberAddr = cfg[n].MemberAddr
    /\ \A n \in Nodes : \A i, j \in 1..Len(members[n]) :
         i # j => members[n][i] # members[n][j]

\* C6: when the members register one after the other with a master whose
\* Startup has returned, the N-th of them receives a list of N + 1 entries,
\* the master's and its own among them, and every step leaves the master's
\* list a prefix of what it becomes (no entry is removed, none is duplicated).
C6_RegisterResponse ==
    /\ []C6_ResponseInv
    /\ [][\A n \in Nodes :
             (Started(n) /\ \A a \in writing[n] : a.up)
                 => IsPrefix(members[n], members'[n])]_vars

\* The last member to register, after the master's Startup, holds a response
\* of NumMembers + 1 entries.
C6_Witness ==
    \E n \in Nodes :
        /\ Len(resp[n]) = NumMembers + 1
        /\ Len(regLog) = NumMembers
        /\ regLog[NumMembers].from = n
        /\ \A i \in 1..NumMembers : regLog[i].masterUp

\* Node e holds remote entries for every service of node nn.
Knows(e, nn) ==
    \A s \in Range(cfg[nn].Components) : <<s, cfg[nn].MemberAddr>> \in remote[e]

\* The master handled e's registration before nn's.
RegisteredBefore(e, nn) ==
    \E i, j \in 1..Len(regLog) :
        i < j /\ regLog[i].from = e /\ regLog[j].from = nn

\* C7: once the master has handled the registration of member nn, every
\* member e registered before it eventually holds nn's services as remote
\* entries, unless e's process has died; and a member whose Startup returned
\* nil holds remote entries for the services of every member listed in the
\* response it received.
C7_Convergence ==
    /\ \A e, nn \in 1..NumMembers :
         RegisteredBefore(e, nn) ~> (Knows(e, nn) \/ ~alive[e])
    /\ [](\A n \in Nodes :
            (MemberConfig(cfg[n]) /\ Started(n)) =>
                /\ resp[n] # << >>
                /\ \A j \in 1..Len(resp[n]) :
                     \A s \in resp[n][j].Services :
                        <<s, resp[n][j].MemberAddr>> \in remote[n])

\* A live, started member that learned of a later member's services.
C7_Witness ==
    \E e, nn \in Nodes :
        /\ RegisteredBefore(e, nn)
        /\ Started(e) /\ alive[e]
        /\ Len(resp[e]) < Len(resp[nn])
        /\ Knows(e, nn)

\* C8: a forwarded envelope never takes the serving process down: every
\* process that has served an inbound call is still alive.
C8_InboundNeverCrashes ==
    \A n \in Nodes : alive[n]

\* C9: a Startup that returned an error has run no hook, launched no
\* acceptor and seeded no remote entry; and a Startup that returned nil has
\* met none of the failures of steps 1-4.
C9_FailedStartup ==
    \A n \in Nodes :
        /\ Failed(n) =>
             /\ pc[n] = "failed"
             /\ hooks[n] = << >>
             /\ acceptor[n] = "none"
             /\ remote[n] = {}
             /\ resp[n] = << >>
        /\ (hooks[n] # << >> \/ acceptor[n] # "none") =>
             /\ ~(cfg[n].IsMaster /\ cfg[n].AdvertiseAddr = Empty)
             /\ handlerComps[n] = cfg[n].Components
             /\ cfg[n].IsMaster => masterServer[n] # "nil"
             /\ MemberConfig(cfg[n]) =>
                  /\ ~MalformedMemberAddr(cfg[n].MemberAddr)
                  /\ memberServer[n] = "serving"
                  /\ rpcClient[n]
                  /\ resp[n] # << >>

\* A member whose Register call failed, beside a master that ran its hooks.
C9_Witness ==
    \E n, m \in Nodes :
        /\ result[n] = "rpc"
        /\ cfg[m].IsMaster /\ hooks[m] # << >>

\* C10: after Startup has returned an error the node holds no open
\* cluster-facing listener.
C10_NoListenerAfterError ==
    \A n \in Nodes : Failed(n) => listeners[n] = {}

\* C11: a running master holds two serving listeners, the registration
\* surface on AdvertiseAddr and the MemberInbound surface on MemberAddr.
C11_MasterServesBothSurfaces ==
    \A n \in Nodes :
        (cfg[n].IsMaster /\ pc[n] = "running") =>
            /\ cfg[n].AdvertiseAddr \in listeners[n]
            /\ masterServer[n] = "serving"
            /\ cfg[n].MemberAddr \in listeners[n]
            /\ memberServer[n] = "serving"

\* The acceptor the claim names for a configuration: TLS only with both the
\* certificate and the key.
ClaimedAcceptor(c) ==
    IF ~c.IsWebsocket THEN "listenAndServe"
    ELSE IF c.TSLCertificate # Empty /\ c.TSLKey # Empty
         THEN "listenAndServeWSTLS"
         ELSE "listenAndServeWS"

\* C12: a successful Startup has launched the one acceptor its configuration
\* selects, the TLS one only when certificate and key are both set.
C12_AcceptorSelection ==
    \A n \in Nodes : Started(n) => acceptor[n] = ClaimedAcceptor(cfg[n])

\* C13: every Register response, in flight or received, lists the master.
C13_ResponseListsMaster ==
    /\ \A msg \in network :
         msg.kind = "RegisterResponse" =>
            \E j \in 1..Len(msg.Members) : msg.Members[j].isMaster
    /\ \A n \in Nodes :
         resp[n] # << >> => \E j \in 1..Len(resp[n]) : resp[n][j].isMaster

\* C17: a node running as master or member has a well-formed MemberAddr,
\* and no master entry carries a malformed address.
C17_RunningNodeMemberAddr ==
    \A n \in Nodes :
        (Started(n) /\ (cfg[n].IsMaster \/ MemberConfig(cfg[n]))) =>
            /\ ~MalformedMemberAddr(cfg[n].MemberAddr)
            /\ \A i \in MasterEntries(n) :
                 ~MalformedMemberAddr(members[n][i].MemberAddr)

Standalone(c) == ~c.IsMaster /\ c.AdvertiseAddr = Empty

\* C18: a standalone node never opens a cluster listener, never makes an RPC
\* server or client, never sends a Register request and keeps its member
\* list and remote entries empty, whatever its MemberAddr; its Startup fails
\* only on a component registration, and otherwise runs every hook and
\* launches the acceptor.
C18_StandaloneSkipsCluster ==
    \A n \in Nodes :
        Standalone(cfg[n]) =>
            /\ listeners[n] = {}
            /\ masterServer[n] = "nil" /\ memberServer[n] = "nil"
            /\ ~rpcClient[n]
            /\ members[n] = << >> /\ remote[n] = {} /\ resp[n] = << >>
            /\ ~\E msg \in network : msg.kind = "Register" /\ msg.from = n
            /\ result[n] \in {"none", "nil", "register"}
            /\ pc[n] \notin {"bootstrap", "selfRegister", "dial", "await"}
            /\ Started(n) =>
                 /\ acceptor[n] # "none"
                 /\ IsPrefix(StartupHooks(cfg[n].Components), hooks[n])

\* A started standalone node with components and a malformed MemberAddr.
C18_Witness ==
    \E n \in Nodes :
        /\ Standalone(cfg[n]) /\ Started(n)
        /\ Len(cfg[n].Components) >= 1
        /\ MalformedMemberAddr(cfg[n].MemberAddr)

CountOf(n, name) == Cardinality({i \in 1..Len(hooks[n]) : hooks[n][i][1] = name})

\* C20: no Shutdown hook is called before BeforeShutdown has been called on
\* every component, the registration server is stopped only after Shutdown
\* has been called on every component, and while BeforeShutdown hooks run the
\* master's registration server is still serving.
C20_TwoPhaseShutdown ==
    \A n \in Nodes :
        LET k == Len(cfg[n].Components)
        IN /\ CountOf(n, "Shutdown") > 0 => CountOf(n, "BeforeShutdown") = k
           /\ masterServer[n] = "stopped" => CountOf(n, "Shutdown") = k
           /\ (pc[n] = "beforeShutdown" /\ cfg[n].IsMaster) =>
                 /\ masterServer[n] = "serving"
                 /\ cfg[n].AdvertiseAddr \in listeners[n]
                 /\ CountOf(n, "Shutdown") = 0

\* A master with two components whose registration server has been stopped.
C20_Witness ==
    \E n \in Nodes :
        /\ cfg[n].IsMaster /\ Len(cfg[n].Components) >= 2
        /\ masterServer[n] = "stopped"

\* C14: the member list of a node is only read or written by one access at a
\* time, the master's append of its own entry during bootstrap included.
C14_ExclusiveMemberList ==
    \A n \in Nodes : Cardinality(writing[n]) <= 1

\* The plain acceptor of node n is in its loop.
PlainAccepting(n) ==
    acceptor[n] = "listenAndServe" /\ accept[n].loop = "accepting"

\* C15: in plain mode, once the listener is bound the accept loop never
\* ends: a failed Accept is logged and the loop is still accepting, and a
\* connection can be accepted whatever the handlers of the earlier
\* connections are doing.
C15_AcceptLoopNeverStops ==
    /\ [](\A n \in Nodes :
            (PlainAccepting(n) /\ accept[n].accepted < MaxConns) => ENABLED AcceptConn(n))
    /\ [][\A n \in Nodes :
            PlainAccepting(n) =>
              /\ accept'[n].loop = "accepting"
              /\ cfg[n].ServerAddr \in ClientInUse'
              /\ accept'[n].accepted >= accept[n].accepted
              /\ accept'[n].errors >= accept[n].errors]_vars

\* A failed Accept was logged, and two connections were accepted after it
\* whose handlers are both still running.
C15_Witness ==
    \E n \in Nodes :
        /\ PlainAccepting(n)
        /\ accept[n].errors >= 1
        /\ accept[n].accepted >= 2
        /\ accept[n].running >= 2

\* C16: Startup has returned nil as soon as the acceptor task is launched,
\* bound or not; a bind failure of the client-facing listener of any kind
\* ends the process and is never a Startup error.
C16_BindFailureIsFatal ==
    \A n \in Nodes :
        /\ acceptor[n] # "none" => result[n] = "nil"
        /\ accept[n].loop = "fatal" => (~alive[n] /\ result[n] = "nil")
        /\ Failed(n) => (acceptor[n] = "none" /\ accept[n].loop = "none" /\ alive[n])

\* Startup returned nil and the process then ended on the bind failure.
C16_Witness ==
    \E n \in Nodes :
        /\ Started(n)
        /\ accept[n].loop = "fatal"
        /\ ~alive[n]

\* Node n takes a step of Shutdown.
ShutdownStep(n) ==
    /\ pc[n] \in {"running", "beforeShutdown", "shutdown", "stopServer", "draining"}
    /\ pc'[n] \in {"beforeShutdown", "shutdown", "stopServer", "draining", "stopped"}
    /\ (pc'[n] # pc[n] \/ idx'[n] # idx[n])

\* What a step of Shutdown leaves alone: every server but the registration
\* server of the node, the acceptors, the RPC clients, the member lists and
\* the registries.
ShutdownFrame ==
    \A n \in Nodes :
        ShutdownStep(n) =>
          /\ UNCHANGED <<memberServer, accept, acceptor, rpcClient, members,
                         remote, alive, network>>
          /\ IF pc[n] = "stopServer" /\ masterServer[n] # "nil"
             THEN /\ masterServer' = [masterServer EXCEPT ![n] = "stopped"]
                  /\ listeners' = [listeners EXCEPT ![n] = @ \ {cfg[n].AdvertiseAddr}]
             ELSE UNCHANGED <<masterServer, listeners>>

\* A node on which Shutdown has returned accepts client connections as
\* before.
StoppedNodeAccepts ==
    \A n \in Nodes :
        (pc[n] = "stopped" /\ PlainAccepting(n) /\ accept[n].accepted < MaxConns)
            => ENABLED AcceptConn(n)

\* A member on which Shutdown has returned serves its MemberInbound surface
\* and handles the announcements sent to it.
StoppedMemberServes ==
    \A n \in Nodes :
        (pc[n] = "stopped" /\ alive[n] /\ ~cfg[n].IsMaster) =>
            /\ MemberServing(n, cfg[n].MemberAddr)
            /\ (\E msg \in network : msg.kind = "NewMember" /\ msg.to = cfg[n].MemberAddr)
                   => ENABLED NewMember(n)

\* Shutdown stops the registration server and nothing else, and a member on
\* which it has returned goes on as before.
ShutdownStopsOnlyRegistration ==
    /\ [][ShutdownFrame]_vars
    /\ [](StoppedNodeAccepts /\ StoppedMemberServes)

\* C19: Shutdown stops only the master's registration server and leaves the
\* MemberInbound server, the acceptor, the RPC client, the member list and
\* the registry unchanged, so that a member or a master on which Shutdown
\* has returned still accepts client connections and still handles the
\* NewMember announcements of its peers.
C19_ShutdownLeavesNodeServing ==
    /\ [][ShutdownFrame]_vars
    /\ [](StoppedNodeAccepts /\ StoppedMemberServes)
    /\ [](\A n \in Nodes :
            (pc[n] = "stopped" /\ alive[n] /\ cfg[n].IsMaster)
                => MemberServing(n, cfg[n].MemberAddr))


====
